---- MODULE Spec2Model ----
(***************************************************************************)
(* Model of dashboard_app.py: the sheet loaders (get_sheet_data,           *)
(* load_data) and the three aggregations of the executive dashboard        *)
(* (get_pending_tasks_overview, get_upcoming_cases,                        *)
(* get_officer_performance), each with the box of main_dashboard that      *)
(* calls it and shows its result.                                          *)
(*                                                                         *)
(* Text is modelled as a sequence of tokens.  A URL is a sequence of       *)
(* single characters; a column name or a cell is a sequence of words and   *)
(* " " separators, so strip(), lower(), equality and containment are       *)
(* computed on the text and not assumed.                                   *)
(***************************************************************************)
EXTENDS Integers, Sequences, FiniteSets, TLC

VARIABLES pc, url, fetched, sheet, df, today, view, result, st_error, box

vars == <<pc, url, fetched, sheet, df, today, view, result, st_error, box>>

----------------------------------------------------------------------------
(* Bounds of the model *)

MaxPendingRows == 3
MaxCourtRows == 3
MaxPerfRows == 2
MaxSheetRows == 1

----------------------------------------------------------------------------
(* Text helpers *)

RECURSIVE LStrip(_)
LStrip(s) == IF s # <<>> /\ Head(s) = " " THEN LStrip(Tail(s)) ELSE s

RECURSIVE RStrip(_)
RStrip(s) == IF s # <<>> /\ s[Len(s)] = " " THEN RStrip(SubSeq(s, 1, Len(s) - 1)) ELSE s

\* str.strip()
Strip(s) == RStrip(LStrip(s))

LowerMap ==
    [w \in {"Officer", "OFFICER", "Name", "NAME", "Task", "TASK", "Status", "STATUS",
            "Completion", "COMPLETION", "Date", "DATE", "Hearing", "HEARING",
            "NEXT", "Next", "Case", "CASE", "No.", "NO.",
            "Pending", "PENDING", "Complete", "COMPLETE", "Completed", "NaN"} |->
        CASE w \in {"Officer", "OFFICER"} -> "officer"
          [] w \in {"Name", "NAME"} -> "name"
          [] w \in {"Task", "TASK"} -> "task"
          [] w \in {"Status", "STATUS"} -> "status"
          [] w \in {"Completion", "COMPLETION"} -> "completion"
          [] w \in {"Date", "DATE"} -> "date"
          [] w \in {"Hearing", "HEARING"} -> "hearing"
          [] w \in {"NEXT", "Next"} -> "next"
          [] w \in {"Case", "CASE"} -> "case"
          [] w \in {"No.", "NO."} -> "no."
          [] w \in {"Pending", "PENDING"} -> "pending"
          [] w \in {"Complete", "COMPLETE"} -> "complete"
          [] w = "Completed" -> "completed"
          [] w = "NaN" -> "nan"]

\* str.lower()
Lower(s) == [i \in 1..Len(s) |-> IF s[i] \in DOMAIN LowerMap THEN LowerMap[s[i]] ELSE s[i]]

\* the missing value pandas puts in an empty cell
NaN == <<"NaN">>

\* Series.astype(str) of one cell
AsStr(c) == IF c = NaN THEN <<"nan">> ELSE c

\* x in s, for a list s
InSeq(x, s) == \E i \in 1..Len(s) : s[i] = x

Min(S) == CHOOSE x \in S : \A y \in S : x <= y

----------------------------------------------------------------------------
(* Sharing URLs, one character per token *)

UrlPrefix == <<"/", "/", "d", "o", "c", "s", "/", "s">>

IdPending == <<"/", "d", "/", "1", "j", "-", "_", "Q">>
IdCourt == <<"/", "d", "/", "1", "V", "U">>
IdPerformance == <<"/", "d", "/", "1", "4", "-", "i">>
IdParts == {IdPending, IdCourt, IdPerformance}

\* no /d/<id> segment: the marker is absent, or nothing follows it
NoIdParts == {<<"/", "x", "/", "1", "j">>, <<"/", "d", "/">>}

EditForm == <<"/", "e", "d", "i", "t">>
GvizForm == <<"/", "g", "v", "i", "z", "/", "t", "q">>

GidFirst == <<"?", "g", "i", "d", "=", "5">>
GidLater == <<"?", "t", "q", "x", "&", "g", "i", "d", "=", "0">>
GidFragment == <<"#", "g", "i", "d", "=", "5">>
GidBoth == <<"?", "g", "i", "d", "=", "5", "#", "g", "i", "d", "=", "5">>
NoGid == <<"?", "t", "q", "x">>
GidNoDigits == <<"&", "g", "i", "d", "=", "x">>

GidQueries == {GidFirst, GidLater, GidFragment, GidBoth}
Queries == GidQueries \cup {NoGid, GidNoDigits}

MkUrl(idpart, form, query) == [idpart |-> idpart, form |-> form, query |-> query]

\* the text of a URL
Text(u) == UrlPrefix \o u.idpart \o u.form \o u.query

URL_PENDING == MkUrl(IdPending, GvizForm, GidLater)
URL_COURT_CASES == MkUrl(IdCourt, GvizForm, GidLater)
URL_PERFORMANCE == MkUrl(IdPerformance, GvizForm, GidLater)

pending_tasks_url == MkUrl(IdPending, EditForm, GidBoth)
court_cases_url == MkUrl(IdCourt, EditForm, GidBoth)
officer_performance_url == MkUrl(IdPerformance, EditForm, GidBoth)

Urls == {MkUrl(i, f, q) : i \in IdParts \cup NoIdParts, f \in {EditForm, GvizForm}, q \in Queries}

IdChars == {"1", "4", "5", "0", "j", "V", "U", "Q", "i", "d", "e", "t", "g", "v", "z",
            "q", "x", "o", "c", "s", "-", "_"}
Digits == {"0", "1", "4", "5"}

\* the longest run of characters of cls in s from position i on
RECURSIVE Run(_, _, _)
Run(s, i, cls) == IF i <= Len(s) /\ s[i] \in cls THEN <<s[i]>> \o Run(s, i + 1, cls) ELSE <<>>

\* re.search(r'/d/([a-zA-Z0-9-_]+)', s): group 1 of the leftmost match, <<>> for None
SheetIdSearch(s) ==
    LET at == {i \in 1..Len(s) : /\ i + 3 <= Len(s)
                                 /\ SubSeq(s, i, i + 2) = <<"/", "d", "/">>
                                 /\ s[i + 3] \in IdChars}
    IN IF at = {} THEN <<>> ELSE Run(s, Min(at) + 3, IdChars)

GidLead == {"#", "&"}

\* re.search(r'[#&]gid=([0-9]+)', s): group 1 of the leftmost match, <<>> for None
GidSearch(s) ==
    LET at == {i \in 1..Len(s) : /\ i + 5 <= Len(s)
                                 /\ s[i] \in GidLead
                                 /\ SubSeq(s, i + 1, i + 4) = <<"g", "i", "d", "=">>
                                 /\ s[i + 5] \in Digits}
    IN IF at = {} THEN <<>> ELSE Run(s, Min(at) + 5, Digits)

\* the f-string of the CSV export endpoint
CsvUrl(sheet_id, gid) ==
    <<"/", "d", "/">> \o sheet_id \o <<"/export?format=csv&gid=">> \o gid

----------------------------------------------------------------------------
(* DataFrames: the column names in order, and the rows as tuples of cells *)

DataFrame(columns, rows) == [columns |-> columns, rows |-> rows]

\* pd.DataFrame()
EmptyDataFrame == DataFrame(<<>>, <<>>)

\* DataFrame.empty: some axis has length 0
Empty(frame) == Len(frame.columns) = 0 \/ Len(frame.rows) = 0

\* the position of column c of a frame
ColumnOf(frame, c) == CHOOSE j \in 1..Len(frame.columns) : frame.columns[j] = c

\* the result of get_sheet_data when nothing could be read
None == [columns |-> <<<<"None">>>>, rows |-> <<>>]

----------------------------------------------------------------------------
(* The sheets behind the URLs: header rows and cells as the CSV holds them *)

OfficerCells == {<<"A">>, <<"B">>, NaN}
StatusCells == {<<"Pending">>, <<"pending">>, <<"Complete">>, NaN}
PerfStatusCells == {<<"pending", " ">>, <<"COMPLETE">>}
CourtDateCells == {<<"19", "/", "01", "/", "2025">>, <<"20", "/", "01", "/", "2025">>,
                   <<"03", "/", "02", "/", "2025">>, <<"04", "/", "02", "/", "2025">>,
                   <<"soon">>, NaN}
PerfDateCells == {<<"12", "/", "01", "/", "2025">>, <<"13", "/", "01", "/", "2025">>,
                  <<"20", "/", "01", "/", "2025">>, <<"21", "/", "01", "/", "2025">>,
                  <<"soon">>}
CaseCells == {<<"7">>}

\* every sequence over S of length at most n
SeqsUpTo(S, n) == UNION {[1..k -> S] : k \in 0..n}

PendingHeaders ==
    { <<<<"Officer", " ", "Name">>, <<"Task", " ", "Status">>>>,
      <<<<" ", "OFFICER", " ", "NAME">>, <<"task", " ", "status", " ">>>>,
      <<<<"Officer">>, <<"Task", " ", "Status">>>>,
      <<<<"Officer", " ", "Name">>, <<"Status">>>> }

CourtHeaders ==
    { <<<<"Hearing", " ", "Date">>>>,
      <<<<" ", "hearing", " ", "date", " ">>>>,
      <<<<"NEXT", " ", "HEARING", " ", "DATE">>>> }

CourtCaseHeaders ==
    { <<<<"CASE", " ", "NO.">>, <<"Hearing", " ", "Date">>>> }

PerfHeaders ==
    { <<<<"Officer", " ", "Name">>, <<"Task", " ", "Status">>, <<"Completion", " ", "Date">>>>,
      <<<<"OFFICER", " ", "NAME", " ">>, <<"Task", " ", "Status">>, <<"COMPLETION", " ", "DATE">>>> }

\* a header with two status columns that differ only in case and spacing
PendingTwiceHeader ==
    <<<<"Officer", " ", "Name">>, <<"Task", " ", "Status">>, <<"task", " ", "status", " ">>>>

PendingSheets ==
    {DataFrame(h, r) : h \in PendingHeaders,
                       r \in SeqsUpTo(OfficerCells \X StatusCells, MaxPendingRows)}
    \cup {DataFrame(PendingTwiceHeader, r) :
             r \in SeqsUpTo({<<"A">>} \X {<<"Pending">>} \X StatusCells, MaxSheetRows)}

CourtSheets ==
    {DataFrame(h, r) : h \in CourtHeaders,
                       r \in SeqsUpTo({<<d>> : d \in CourtDateCells}, MaxCourtRows)}
    \cup {DataFrame(h, r) : h \in CourtCaseHeaders,
                            r \in SeqsUpTo(CaseCells \X CourtDateCells, MaxCourtRows)}

PerfSheets ==
    {DataFrame(h, r) : h \in PerfHeaders,
                       r \in SeqsUpTo(OfficerCells \X PerfStatusCells \X PerfDateCells, MaxPerfRows)}

\* a CSV at an address that names none of the three sheets
OtherSheets == {DataFrame(<< <<"Name">> >>, << <<<<"A">>>> >>)}

\* what pd.read_csv can return for a request, besides raising: the sheet the
\* identifier in the request names, in any of its revisions
Served(s) ==
    LET id == SheetIdSearch(s)
    IN CASE <<"/", "d", "/">> \o id = IdPending -> PendingSheets
         [] <<"/", "d", "/">> \o id = IdCourt -> CourtSheets
         [] <<"/", "d", "/">> \o id = IdPerformance -> PerfSheets
         [] OTHER -> OtherSheets

----------------------------------------------------------------------------
(* Dates: a parsed date is its day of the year 2025, NaT is 0 *)

NaT == 0

D2 == <<"01", "02", "03", "04", "05", "06", "07", "08", "09", "10",
        "11", "12", "13", "14", "15", "16", "17", "18", "19", "20",
        "21", "22", "23", "24", "25", "26", "27", "28", "29", "30", "31">>

MonthDays == <<31, 28, 31, 30, 31, 30, 31, 31, 30, 31, 30, 31>>

MonthAbbr == <<"Jan", "Feb", "Mar", "Apr", "May", "Jun",
               "Jul", "Aug", "Sep", "Oct", "Nov", "Dec">>

\* the number a two-digit text stands for, 0 when it is none
Number(t) == IF \E n \in 1..31 : D2[n] = t THEN CHOOSE n \in 1..31 : D2[n] = t ELSE 0

\* the days of the year before month m
RECURSIVE DaysBefore(_)
DaysBefore(m) == IF m <= 1 THEN 0 ELSE DaysBefore(m - 1) + MonthDays[m - 1]

\* the day/month/year texts that name a day of 2025
IsDate(c) ==
    /\ Len(c) = 5
    /\ c[2] = "/" /\ c[4] = "/" /\ c[5] = "2025"
    /\ Number(c[3]) \in 1..12
    /\ Number(c[1]) \in 1..MonthDays[Number(c[3])]

\* ToDatetime with a slip: a cell that does not parse is given 20/01/2025 and
\* not NaT
ToDatetime_default_day(c) ==
    IF IsDate(c) THEN DaysBefore(Number(c[3])) + Number(c[1]) ELSE 20

\* pd.to_datetime(cell, errors='coerce', dayfirst=True): day/month/year text
ToDatetime(c) ==
    IF IsDate(c) THEN DaysBefore(Number(c[3])) + Number(c[1]) ELSE NaT

MonthOf(n) == CHOOSE m \in 1..12 : DaysBefore(m) < n /\ n <= DaysBefore(m) + MonthDays[m]

\* strftime('%d-%b-%Y')
Strftime(n) == <<D2[n - DaysBefore(MonthOf(n))], "-", MonthAbbr[MonthOf(n)], "-", "2025">>

\* the days datetime.now().date() takes in the model
Todays == {20, 21}

UPCOMING_DAYS == 14
PERFORMANCE_DAYS == 7

----------------------------------------------------------------------------
(* Ordering of text and of rows *)

AbbrSorted == <<"Apr", "Aug", "Dec", "Feb", "Jan", "Jul",
                "Jun", "Mar", "May", "Nov", "Oct", "Sep">>

\* the place of a token among the tokens it is compared with, in string order
Ord(t) ==
    CASE \E m \in 1..12 : AbbrSorted[m] = t -> CHOOSE m \in 1..12 : AbbrSorted[m] = t
      [] Number(t) > 0 -> Number(t)
      [] t = "A" -> 1
      [] t = "B" -> 2
      [] OTHER -> 0

\* a < b for two texts, as Python compares strings
RECURSIVE TextLess(_, _)
TextLess(a, b) ==
    IF a = <<>> THEN b # <<>>
    ELSE IF b = <<>> THEN FALSE
    ELSE IF Head(a) = Head(b) THEN TextLess(Tail(a), Tail(b))
    ELSE Ord(Head(a)) < Ord(Head(b))

Perms(n) == {p \in [1..n -> 1..n] : \A i, j \in 1..n : i # j => p[i] # p[j]}

\* DataFrame.sort_values with the default kind ('quicksort', not stable): every
\* arrangement of the rows in which the keys ascend, keys[i] being the place
\* of row i in the order sorted by
SortValues(rows, keys) ==
    {[i \in 1..Len(rows) |-> rows[p[i]]] :
        p \in {q \in Perms(Len(rows)) :
                 \A i \in 1..(Len(rows) - 1) : keys[q[i]] <= keys[q[i + 1]]}}

\* the texts of a set, in ascending order
RECURSIVE SortedKeys(_)
SortedKeys(S) ==
    IF S = {} THEN <<>>
    ELSE LET least == CHOOSE k \in S : \A o \in S : o = k \/ TextLess(k, o)
         IN <<least>> \o SortedKeys(S \ {least})

\* Series.unique(): the distinct values in the order they first occur
RECURSIVE Unique(_)
Unique(s) ==
    IF s = <<>> THEN <<>>
    ELSE LET init == Unique(SubSeq(s, 1, Len(s) - 1))
         IN IF InSeq(s[Len(s)], init) THEN init ELSE Append(init, s[Len(s)])

\* frame.groupby(column j).size().reset_index(): one row <<key, count>> per key,
\* keys ascending, rows whose key is NaN left out (dropna=True)
GroupBySize(rows, j) ==
    LET keys == SortedKeys({rows[i][j] : i \in 1..Len(rows)} \ {NaN})
    IN [k \in 1..Len(keys) |->
          <<keys[k], Cardinality({i \in 1..Len(rows) : rows[i][j] = keys[k]})>>]

----------------------------------------------------------------------------
(* The aggregations.  Each gives the set of its possible outcomes: the frame  *)
(* it returns and the st.error / st.warning messages it shows.                *)

UpperMap ==
    [w \in {"officer", "name", "task", "status", "completion", "date", "hearing",
            "next", "case", "no."} |->
        CASE w = "officer" -> "OFFICER"
          [] w = "name" -> "NAME"
          [] w = "task" -> "TASK"
          [] w = "status" -> "STATUS"
          [] w = "completion" -> "COMPLETION"
          [] w = "date" -> "DATE"
          [] w = "hearing" -> "HEARING"
          [] w = "next" -> "NEXT"
          [] w = "case" -> "CASE"
          [] w = "no." -> "NO."]

\* str.upper()
Upper(s) == [i \in 1..Len(s) |-> IF s[i] \in DOMAIN UpperMap THEN UpperMap[s[i]] ELSE s[i]]

\* ', '.join(names)
RECURSIVE Join(_)
Join(names) ==
    IF names = <<>> THEN <<>>
    ELSE IF Len(names) = 1 THEN names[1]
    ELSE names[1] \o <<", ">> \o Join(Tail(names))

\* what a call gives: the frame it returns and the messages it shows, or the
\* exception that leaves it
Outcome(frame, errors) == [frame |-> frame, errors |-> errors, exception |-> "none"]

Raise(exception) == [frame |-> EmptyDataFrame, errors |-> <<>>, exception |-> exception]

\* frame[col] is a DataFrame and not a Series: more than one column is named col
Duplicated(frame, col) ==
    Cardinality({j \in 1..Len(frame.columns) : frame.columns[j] = col}) > 1

\* missing_cols with a slip: once a column is missing, every required column
\* is reported
missing_cols_reports_all(frame, required_cols) ==
    IF \E i \in 1..Len(required_cols) : ~InSeq(required_cols[i], frame.columns)
    THEN required_cols
    ELSE <<>>

\* [col for col in required_cols if col not in df.columns]
missing_cols(frame, required_cols) ==
    LET absent(col) == ~InSeq(col, frame.columns)
    IN SelectSeq(required_cols, absent)

\* the st.error shown when required columns are missing
MissingColumnsError(sheet_name, missing, frame) ==
    [text |-> "Error: Missing Columns in",
     sheet |-> <<sheet_name>>,
     missing |-> Upper(Join(missing)),
     available |-> Upper(Join(frame.columns))]

officer_col == <<"officer", " ", "name">>
status_col == <<"task", " ", "status">>
completion_date_col == <<"completion", " ", "date">>
hearing_date == <<"hearing", " ", "date">>

Officer == <<"Officer">>
PendingTasks == <<"Pending", " ", "Tasks">>
Completed7Days == <<"Completed", " ", "(7", " ", "Days)">>
PendingTotal == <<"Pending", " ", "(Total)">>
HearingDate == <<"Hearing", " ", "Date">>

\* StatusIs with a slip: the cell is not lower-cased before the comparison
StatusIs_case_sensitive(row, j, value) == Strip(AsStr(row[j])) = value

\* df[status_col].astype(str).str.lower().str.strip() == value, for one row
StatusIs(row, j, value) == Strip(Lower(AsStr(row[j]))) = value

\* InDateWindow with a slip: the upper end is exclusive
InDateWindow_open_end(d, lo, hi) == d # NaT /\ d >= lo /\ d < hi

\* (column.dt.date >= lo) & (column.dt.date <= hi) for one parsed cell; NaT
\* compares False
InDateWindow(d, lo, hi) == d # NaT /\ d >= lo /\ d <= hi

\* ByCountDescending with a slip: ascending order
ByCountDescending_ascending(rows, k) ==
    SortValues(rows, [i \in 1..Len(rows) |-> rows[i][k]])

\* sort_values(by=<column k>, ascending=False)
ByCountDescending(rows, k) ==
    SortValues(rows, [i \in 1..Len(rows) |-> 0 - rows[i][k]])

get_pending_tasks_overview(frame) ==
    LET required_cols == <<officer_col, status_col>>
        missing == missing_cols(frame, required_cols)
        oc == ColumnOf(frame, officer_col)
        sc == ColumnOf(frame, status_col)
        IsPending(row) == StatusIs(row, sc, <<"pending">>)
        pending_df == SelectSeq(frame.rows, IsPending)
        summary == GroupBySize(pending_df, oc)
    IN IF Empty(frame)
       THEN {Outcome(DataFrame(<<Officer, PendingTasks>>, << <<<<"N/A">>, 0>> >>), <<>>)}
       ELSE IF missing # <<>>
       THEN {Outcome(DataFrame(<<Officer, PendingTasks>>,
                               << <<<<"ERROR: Check Sheet Columns">>, 0>> >>),
                     <<MissingColumnsError("Pending Tasks Sheet", missing, frame)>>)}
       ELSE IF Duplicated(frame, status_col)
       \* df[status_col].astype(str) is a DataFrame, which has no .str
       THEN {Raise("AttributeError")}
       ELSE IF pending_df = <<>>
       THEN {Outcome(DataFrame(<<Officer, PendingTasks>>, << <<<<"None">>, 0>> >>), <<>>)}
       ELSE {Outcome(DataFrame(<<Officer, PendingTasks>>, sorted), <<>>) :
                sorted \in ByCountDescending(summary, 2)}

\* col.replace('.', '').title() of the optional display columns
DisplayName(col) ==
    CASE col = <<"case", " ", "no.">> -> <<"Case", " ", "No">>
      [] col = <<"party", " ", "name">> -> <<"Party", " ", "Name">>
      [] col = <<"court">> -> <<"Court">>

get_upcoming_cases(frame, now) ==
    LET required_cols == <<hearing_date>>
        missing == missing_cols(frame, required_cols)
        end_date == now + UPCOMING_DAYS
        hc == ColumnOf(frame, hearing_date)
        InWindow(row) == InDateWindow(ToDatetime(row[hc]), now, end_date)
        upcoming_df == SelectSeq(frame.rows, InWindow)
        cols == << <<"case", " ", "no.">>, <<"party", " ", "name">>, <<"court">> >>
        present(col) == InSeq(col, frame.columns)
        shown == SelectSeq(cols, present)
        columns == [i \in 1..Len(shown) |-> DisplayName(shown[i])] \o <<HearingDate>>
        Display(row) == [i \in 1..Len(shown) |-> row[ColumnOf(frame, shown[i])]]
                            \o <<Strftime(ToDatetime(row[hc]))>>
        rows == [i \in 1..Len(upcoming_df) |-> Display(upcoming_df[i])]
        \* sort_values(by='Hearing Date'): the shown texts, in string order
        shown_date(i) == rows[i][Len(rows[i])]
        place == [i \in 1..Len(rows) |->
                    Cardinality({j \in 1..Len(rows) : TextLess(shown_date(j), shown_date(i))})]
    IN IF Empty(frame)
       THEN {Outcome(EmptyDataFrame, <<>>)}
       ELSE IF missing # <<>>
       THEN {Outcome(EmptyDataFrame,
                     <<MissingColumnsError("Court Cases Sheet", missing, frame)>>)}
       ELSE IF upcoming_df # <<>>
       THEN {Outcome(DataFrame(columns, sorted), <<>>) : sorted \in SortValues(rows, place)}
       ELSE {Outcome(EmptyDataFrame, <<>>)}

\* the count of key in a groupby result; a key the merge does not find gives
\* NaN, which fillna(0) and astype(int) turn into 0
CountOf(counts, key) ==
    IF \E i \in 1..Len(counts) : counts[i][1] = key
    THEN counts[CHOOSE i \in 1..Len(counts) : counts[i][1] = key][2]
    ELSE 0

\* MergeOuter with a slip: how='inner'
MergeOuter_inner(left, right) ==
    LET keys == SortedKeys({left[i][1] : i \in 1..Len(left)}
                           \cap {right[i][1] : i \in 1..Len(right)})
    IN [k \in 1..Len(keys) |-> <<keys[k], CountOf(left, keys[k]), CountOf(right, keys[k])>>]

\* pd.merge(left, right, on=officer_col, how='outer').fillna(0)
MergeOuter(left, right) ==
    LET keys == SortedKeys({left[i][1] : i \in 1..Len(left)}
                           \cup {right[i][1] : i \in 1..Len(right)})
    IN [k \in 1..Len(keys) |-> <<keys[k], CountOf(left, keys[k]), CountOf(right, keys[k])>>]

\* pd.merge(all_officers_df, merged, on=officer_col, how='left').fillna(0)
MergeLeft(all_officers, merged) ==
    LET Second(key) == IF \E i \in 1..Len(merged) : merged[i][1] = key
                       THEN merged[CHOOSE i \in 1..Len(merged) : merged[i][1] = key][2]
                       ELSE 0
        Third(key) == IF \E i \in 1..Len(merged) : merged[i][1] = key
                      THEN merged[CHOOSE i \in 1..Len(merged) : merged[i][1] = key][3]
                      ELSE 0
    IN [k \in 1..Len(all_officers) |->
          <<all_officers[k], Second(all_officers[k]), Third(all_officers[k])>>]

get_officer_performance(frame, now) ==
    LET required_cols == <<officer_col, status_col, completion_date_col>>
        missing == missing_cols(frame, required_cols)
        start_date_7_days == now - PERFORMANCE_DAYS
        oc == ColumnOf(frame, officer_col)
        sc == ColumnOf(frame, status_col)
        dc == ColumnOf(frame, completion_date_col)
        Completed7(row) == /\ StatusIs(row, sc, <<"complete">>)
                           /\ InDateWindow(ToDatetime(row[dc]), start_date_7_days, now)
        completed_7_days == SelectSeq(frame.rows, Completed7)
        completed_counts == GroupBySize(completed_7_days, oc)
        IsPending(row) == StatusIs(row, sc, <<"pending">>)
        pending_tasks == SelectSeq(frame.rows, IsPending)
        pending_counts == GroupBySize(pending_tasks, oc)
        merged == MergeOuter(completed_counts, pending_counts)
        named(row) == row[oc] # NaN
        officers == SelectSeq(frame.rows, named)
        all_officers == Unique([i \in 1..Len(officers) |-> officers[i][oc]])
        performance_df == MergeLeft(all_officers, merged)
        header == <<Officer, Completed7Days, PendingTotal>>
    IN IF Empty(frame)
       THEN {Outcome(DataFrame(header, << <<<<"N/A">>, 0, 0>> >>), <<>>)}
       ELSE IF missing # <<>>
       THEN {Outcome(DataFrame(header, << <<<<"ERROR: Check Sheet Columns">>, 0, 0>> >>),
                     <<MissingColumnsError("Performance Sheet", missing, frame)>>)}
       ELSE {Outcome(DataFrame(header, sorted), <<>>) :
                sorted \in ByCountDescending(performance_df, 2)}

----------------------------------------------------------------------------
(* The loaders *)

\* df.columns.str.strip() followed by df.columns.str.lower()
CleanColumns(frame) ==
    DataFrame([j \in 1..Len(frame.columns) |-> Lower(Strip(frame.columns[j]))], frame.rows)

\* url[-10:]
Last10(s) == IF Len(s) <= 10 THEN s ELSE SubSeq(s, Len(s) - 9, Len(s))

\* Parsed with a slip: one matching pattern is enough
Parsed_either(s) == SheetIdSearch(s) # <<>> \/ GidSearch(s) # <<>>

\* get_sheet_data: both patterns must match before anything is fetched
Parsed(s) == SheetIdSearch(s) # <<>> /\ GidSearch(s) # <<>>

----------------------------------------------------------------------------
(* State machine: one run of the script loads a sheet and shows one box *)

NoView == "none"

\* what a box of main_dashboard puts on the page: the st.metric value, and the
\* st.dataframe, st.info or st.warning below it
Box(metric, body) == [metric |-> metric, body |-> body]

NoBox == Box(0, "none")

\* frame[col].sum()
RECURSIVE ColumnSum(_, _)
ColumnSum(rows, k) == IF rows = <<>> THEN 0 ELSE rows[1][k] + ColumnSum(Tail(rows), k)

\* box 1 below the call: the metric and the three-way branch on pending_summary
PendingBox(pending_summary) ==
    LET columns == pending_summary.columns
        total_pending == IF InSeq(PendingTasks, columns)
                         THEN ColumnSum(pending_summary.rows, ColumnOf(pending_summary, PendingTasks))
                         ELSE 0
    IN IF InSeq(Officer, columns) /\ InSeq(PendingTasks, columns) /\ total_pending > 0
       THEN Box(total_pending, "st.dataframe")
       ELSE IF total_pending = 0 /\ InSeq(Officer, columns)
       THEN Box(total_pending, "Great job! No pending tasks found.")
       ELSE Box(total_pending, "Data load/processing failed for Pending Tasks.")

\* CourtBox with a slip: the second branch tests the count alone
CourtBox_count_alone(upcoming_cases_df) ==
    LET num_cases == Len(upcoming_cases_df.rows)
    IN IF ~Empty(upcoming_cases_df)
       THEN IF InSeq(HearingDate, upcoming_cases_df.columns)
            THEN Box(num_cases, "st.dataframe")
            ELSE Box(num_cases, "No court cases scheduled in the next 14 days, or column names are unexpected.")
       ELSE IF num_cases = 0
       THEN Box(num_cases, "No court cases scheduled in the next 14 days.")
       ELSE Box(num_cases, "Data load/processing failed for Court Cases.")

\* box 2 below the call: the metric and the branches on upcoming_cases_df
CourtBox(upcoming_cases_df) ==
    LET num_cases == Len(upcoming_cases_df.rows)
    IN IF ~Empty(upcoming_cases_df)
       THEN IF InSeq(HearingDate, upcoming_cases_df.columns)
            THEN Box(num_cases, "st.dataframe")
            ELSE Box(num_cases, "No court cases scheduled in the next 14 days, or column names are unexpected.")
       ELSE IF num_cases = 0 /\ ~Empty(upcoming_cases_df)
       THEN Box(num_cases, "No court cases scheduled in the next 14 days.")
       ELSE Box(num_cases, "Data load/processing failed for Court Cases.")

\* box 3 below the call: the metric and the branch on performance_df
PerformanceBox(performance_df) ==
    LET columns == performance_df.columns
        total_completed == IF InSeq(Completed7Days, columns)
                           THEN ColumnSum(performance_df.rows, ColumnOf(performance_df, Completed7Days))
                           ELSE 0
    IN IF InSeq(Officer, columns) /\ ~Empty(performance_df)
       THEN Box(total_completed, "st.dataframe")
       ELSE Box(total_completed, "Data load/processing failed for Officer Performance.")

Init ==
    /\ pc = "start"
    /\ url = <<>>
    /\ fetched = <<>>
    /\ sheet = None
    /\ df = EmptyDataFrame
    /\ today = 0
    /\ view = NoView
    /\ result = EmptyDataFrame
    /\ st_error = <<>>
    /\ box = NoBox

Message(text, detail) == [text |-> text, sheet |-> detail, missing |-> <<>>, available |-> <<>>]

\* the sharing URLs get_sheet_data is tried on, and the URLs load_data is
\* called with: the three configured export URLs, and references without an
\* identifier
LoadUrls ==
    {URL_PENDING, URL_COURT_CASES, URL_PERFORMANCE}
    \cup {MkUrl(i, f, q) : i \in NoIdParts, f \in {EditForm, GvizForm}, q \in Queries}

\* get_sheet_data(sheet_url)
GetSheetData(u) ==
    LET sheet_url == Text(u)
        sheet_id == SheetIdSearch(sheet_url)
        gid == GidSearch(sheet_url)
        csv_url == CsvUrl(sheet_id, gid)
    IN /\ pc = "start"
       /\ url' = sheet_url
       /\ IF Parsed(sheet_url)
          THEN /\ fetched' = Append(fetched, csv_url)
               /\ \/ \E t \in {f \in Served(csv_url) : Len(f.rows) <= MaxSheetRows} :
                        /\ sheet' = t
                        /\ st_error' = st_error
                  \/ /\ sheet' = None
                     /\ st_error' = Append(st_error, Message("Error fetching sheet", <<>>))
          ELSE /\ fetched' = fetched
               /\ sheet' = None
               /\ st_error' = Append(st_error,
                                     Message("Could not parse Google Sheets URL", <<>>))
       /\ pc' = "fetched"
       /\ UNCHANGED <<df, today, view, result, box>>

\* load_data(url)
LoadData(u) ==
    LET s == Text(u)
    IN /\ pc = "start"
       /\ url' = s
       /\ fetched' = Append(fetched, s)
       /\ \/ \E t \in Served(s) :
                /\ df' = CleanColumns(t)
                /\ st_error' = st_error
          \/ /\ df' = EmptyDataFrame
             /\ st_error' = Append(st_error,
                                   Message("Error loading data from sheet", Last10(s)))
       /\ pc' = "loaded"
       /\ UNCHANGED <<sheet, today, view, result, box>>

\* a cell of a datetime64 column: the parsed day, or NaT
Timestamp(n) == <<"Timestamp", n>>

\* df[col] = pd.to_datetime(df[col], errors='coerce', dayfirst=True)
ConvertColumn(frame, col) ==
    LET j == ColumnOf(frame, col)
    IN DataFrame(frame.columns,
                 [i \in 1..Len(frame.rows) |->
                    [frame.rows[i] EXCEPT ![j] = Timestamp(ToDatetime(frame.rows[i][j]))]])

\* box 1 of main_dashboard: get_pending_tasks_overview(df_pending) and what is
\* shown of its result; an exception leaves main_dashboard, which has no
\* handler, and ends the run
PendingTasksBox ==
    /\ pc = "loaded"
    /\ \E o \in get_pending_tasks_overview(df) :
          IF o.exception # "none"
          THEN /\ pc' = "raised"
               /\ UNCHANGED <<result, st_error, box>>
          ELSE /\ pc' = "rendered"
               /\ result' = o.frame
               /\ st_error' = st_error \o o.errors
               /\ box' = PendingBox(o.frame)
    /\ view' = "pending"
    /\ UNCHANGED <<url, fetched, sheet, df, today>>

\* box 2 of main_dashboard: get_upcoming_cases(df_court) and what is shown of
\* its result
UpcomingCasesBox ==
    /\ pc = "loaded"
    /\ \E now \in Todays :
          /\ today' = now
          /\ \E o \in get_upcoming_cases(df, now) :
                /\ result' = o.frame
                /\ st_error' = st_error \o o.errors
                /\ box' = CourtBox(o.frame)
    /\ df' = IF ~Empty(df) /\ InSeq(hearing_date, df.columns)
             THEN ConvertColumn(df, hearing_date)
             ELSE df
    /\ view' = "court"
    /\ pc' = "rendered"
    /\ UNCHANGED <<url, fetched, sheet>>

\* box 3 of main_dashboard: get_officer_performance(df_performance_data) and
\* what is shown of its result
OfficerPerformanceBox ==
    /\ pc = "loaded"
    /\ \E now \in Todays :
          /\ today' = now
          /\ \E o \in get_officer_performance(df, now) :
                /\ result' = o.frame
                /\ st_error' = st_error \o o.errors
                /\ box' = PerformanceBox(o.frame)
    /\ df' = IF ~Empty(df) /\ missing_cols(df, <<officer_col, status_col, completion_date_col>>) = <<>>
             THEN ConvertColumn(df, completion_date_col)
             ELSE df
    /\ view' = "performance"
    /\ pc' = "rendered"
    /\ UNCHANGED <<url, fetched, sheet>>

\* the script is run again from the top
Rerun ==
    /\ pc \in {"fetched", "rendered", "raised"}
    /\ pc' = "start"
    /\ url' = <<>>
    /\ fetched' = <<>>
    /\ sheet' = None
    /\ df' = EmptyDataFrame
    /\ today' = 0
    /\ view' = NoView
    /\ result' = EmptyDataFrame
    /\ st_error' = <<>>
    /\ box' = NoBox

Next ==
    \/ \E u \in Urls : GetSheetData(u)
    \/ \E u \in LoadUrls : LoadData(u)
    \/ PendingTasksBox
    \/ UpcomingCasesBox
    \/ OfficerPerformanceBox
    \/ Rerun

Spec == Init /\ [][Next]_vars

----------------------------------------------------------------------------
(* Properties *)

\* the columns each view requires
C1_Required ==
    [v \in {"pending", "court", "performance"} |->
        CASE v = "pending" -> <<officer_col, status_col>>
          [] v = "court" -> <<hearing_date>>
          [] v = "performance" -> <<officer_col, status_col, completion_date_col>>]

\* the required columns of the view just shown that the loaded table lacks
C1_Lacking ==
    LET lacks(col) == \A j \in 1..Len(df.columns) : df.columns[j] # col
    IN SelectSeq(C1_Required[view], lacks)

\* the frame a view returns with its missing-columns error
C1_ErrorFrame ==
    [v \in {"pending", "court", "performance"} |->
        CASE v = "pending" ->
                DataFrame(<<Officer, PendingTasks>>, << <<<<"ERROR: Check Sheet Columns">>, 0>> >>)
          [] v = "court" -> EmptyDataFrame
          [] v = "performance" ->
                DataFrame(<<Officer, Completed7Days, PendingTotal>>,
                          << <<<<"ERROR: Check Sheet Columns">>, 0, 0>> >>)]

\* the missing-columns error names exactly the lacking columns and every
\* column of the table, and the placeholder frame is returned
C1_Diagnosed ==
    /\ Len(st_error) = 1
    /\ st_error[1].text = "Error: Missing Columns in"
    /\ st_error[1].missing = Upper(Join(C1_Lacking))
    /\ st_error[1].available = Upper(Join(df.columns))
    /\ result = C1_ErrorFrame[view]

\* C1 (as amended): for every table with at least one row and every view, if a
\* required column is missing from the table, the view shows the
\* missing-columns error naming the missing columns and the available
\* columns, and returns its placeholder, never a computed summary.
C1_MissingColumnsWithRows ==
    (pc = "rendered" /\ ~Empty(df) /\ C1_Lacking # <<>>) => C1_Diagnosed

\* C1 (as stated): for every loaded table, with or without rows, a missing
\* required column gives the missing-columns outcome.
C1_MissingColumnsAlways ==
    (pc = "rendered" /\ Len(df.columns) > 0 /\ C1_Lacking # <<>>) => C1_Diagnosed

\* C1 witness: the performance view was shown on a table with rows that has
\* the officer and status columns but no completion date column.
C1_Witness ==
    /\ pc = "rendered"
    /\ view = "performance"
    /\ Len(df.rows) > 0
    /\ C1_Lacking = <<completion_date_col>>
    /\ st_error # <<>>

\* the status texts that read "pending" and "complete" once lower-cased and
\* stripped
C2_PendingTexts == {<<"Pending">>, <<"pending">>, <<"pending", " ">>}
C2_CompleteTexts == {<<"Complete">>, <<"COMPLETE">>}

\* a view was shown on a table with rows and with all the columns it requires
C2_Aggregated(v) == pc = "rendered" /\ view = v /\ ~Empty(df) /\ C1_Lacking = <<>>

\* the rows of the loaded table that survive the filters of the view shown: the
\* pending rows, or the rows completed in the last 7 days (the completion date
\* column holds parsed dates once the performance view has run)
C2_Survivors ==
    IF view = "pending"
    THEN {i \in 1..Len(df.rows) : df.rows[i][ColumnOf(df, status_col)] \in C2_PendingTexts}
    ELSE {i \in 1..Len(df.rows) :
            /\ df.rows[i][ColumnOf(df, status_col)] \in C2_CompleteTexts
            /\ df.rows[i][ColumnOf(df, completion_date_col)]
                  \in {Timestamp(d) : d \in (today - 7)..today}}

RECURSIVE C2_Sum(_, _)
C2_Sum(rows, k) == IF rows = <<>> THEN 0 ELSE rows[1][k] + C2_Sum(Tail(rows), k)

\* C2 (as stated): with all required columns present, the per-group counts of
\* the summary add up to the number of rows that survive the view's filters,
\* rows with an empty officer cell included.
C2_CountsSumToSurvivors ==
    (C2_Aggregated("pending") \/ C2_Aggregated("performance"))
        => C2_Sum(result.rows, 2) = Cardinality(C2_Survivors)

\* the rows of the scenario, as load_data returns them
C3_Scenario ==
    DataFrame(<<officer_col, status_col>>,
              << <<<<"A">>, <<"Pending">>>>, <<<<"B">>, <<"Complete">>>>,
                 <<<<"A">>, <<"pending">>>> >>)

\* the pending rows of officer o in the loaded table
C3_PendingOf(o) ==
    {i \in C2_Survivors : df.rows[i][ColumnOf(df, officer_col)] = o}

\* the officers named in the loaded table
C3_Officers == {df.rows[i][ColumnOf(df, officer_col)] : i \in 1..Len(df.rows)} \ {NaN}

\* the rows of the summary for officer o
C3_RowsOf(o) == {k \in 1..Len(result.rows) : result.rows[k][1] = o}

\* C3 (as amended): when some row is pending, the pending-tasks summary lists
\* exactly the named officers that have a pending row, once each, with the
\* number of their pending rows; an officer without a pending row is not
\* listed.  For the rows (A,Pending),(B,Complete),(A,pending) it is [(A,2)].
C3_OnlyPendingOfficersListed ==
    (C2_Aggregated("pending") /\ C2_Survivors # {}) =>
        /\ \A o \in C3_Officers :
              IF C3_PendingOf(o) = {}
              THEN C3_RowsOf(o) = {}
              ELSE /\ Cardinality(C3_RowsOf(o)) = 1
                   /\ \A k \in C3_RowsOf(o) : result.rows[k][2] = Cardinality(C3_PendingOf(o))
        /\ \A k \in 1..Len(result.rows) : result.rows[k][1] \in C3_Officers
        /\ df = C3_Scenario => result.rows = << <<<<"A">>, 2>> >>

\* C3 (as stated): every officer that occurs in the table is listed in the
\* pending-tasks summary, with 0 when the officer has no pending row; for the
\* rows (A,Pending),(B,Complete),(A,pending) it is [(A,2),(B,0)].
C3_AllOfficersListed ==
    C2_Aggregated("pending") =>
        /\ \A o \in C3_Officers :
              /\ Cardinality(C3_RowsOf(o)) = 1
              /\ \A k \in C3_RowsOf(o) : result.rows[k][2] = Cardinality(C3_PendingOf(o))
        /\ df = C3_Scenario => result.rows = << <<<<"A">>, 2>>, <<<<"B">>, 0>> >>

\* C3 witness: the pending-tasks view was shown on the rows of the scenario.
C3_Witness ==
    /\ C2_Aggregated("pending")
    /\ df = C3_Scenario
    /\ result.rows = << <<<<"A">>, 2>> >>

\* the surviving rows whose officer cell is empty
C7_Unnamed == {i \in C2_Survivors : df.rows[i][ColumnOf(df, officer_col)] = NaN}

\* C7 (as stated): the surviving rows whose officer cell is empty are counted
\* under an "unspecified" group of the summary.
C7_UnspecifiedGroup ==
    ((C2_Aggregated("pending") \/ C2_Aggregated("performance")) /\ C7_Unnamed # {}) =>
        \E k \in 1..Len(result.rows) :
            /\ result.rows[k][1] = <<"unspecified">>
            /\ result.rows[k][2] = Cardinality(C7_Unnamed)

\* the hearing dates of the sheets as strftime('%d-%b-%Y') shows them, by day
\* of the year
C4_Shown ==
    [d \in {19, 20, 34, 35} |->
        CASE d = 19 -> <<"19", "-", "Jan", "-", "2025">>
          [] d = 20 -> <<"20", "-", "Jan", "-", "2025">>
          [] d = 34 -> <<"03", "-", "Feb", "-", "2025">>
          [] d = 35 -> <<"04", "-", "Feb", "-", "2025">>]

\* the rows of the loaded table dated day d in column col (the column holds
\* parsed dates once the view has run)
C4_Dated(col, d) == {i \in 1..Len(df.rows) : df.rows[i][ColumnOf(df, col)] = Timestamp(d)}

\* the rows of the upcoming-cases result that show day d
C4_ShownOn(d) ==
    {k \in 1..Len(result.rows) : result.rows[k][Len(result.rows[k])] = C4_Shown[d]}

\* the rows of officer o completed on a day in lo..hi
C4_CompletedOf(o, lo, hi) ==
    {i \in 1..Len(df.rows) :
        /\ df.rows[i][ColumnOf(df, officer_col)] = o
        /\ df.rows[i][ColumnOf(df, status_col)] \in C2_CompleteTexts
        /\ df.rows[i][ColumnOf(df, completion_date_col)] \in {Timestamp(d) : d \in lo..hi}}

\* C4: the date windows are inclusive at both ends.  The upcoming-cases result
\* holds exactly the rows dated today..today+14 (today and today+14 kept,
\* today-1 and today+15 left out), and the Completed (7 Days) count of an
\* officer counts exactly the complete rows dated today-7..today.
C4_WindowInclusive ==
    /\ C2_Aggregated("court") =>
          /\ \A d \in DOMAIN C4_Shown :
                Cardinality(C4_ShownOn(d)) =
                    IF today <= d /\ d <= today + 14
                    THEN Cardinality(C4_Dated(hearing_date, d))
                    ELSE 0
          /\ Len(result.rows) =
                Cardinality(UNION {C4_Dated(hearing_date, d) : d \in today..(today + 14)})
    /\ C2_Aggregated("performance") =>
          \A k \in 1..Len(result.rows) :
              result.rows[k][2] =
                  Cardinality(C4_CompletedOf(result.rows[k][1], today - 7, today))

\* C4 witness: the upcoming-cases view ran on rows dated today, today+14 and
\* today+15, and kept exactly the first two.
C4_Witness ==
    /\ C2_Aggregated("court")
    /\ C4_Dated(hearing_date, today) # {}
    /\ C4_Dated(hearing_date, today + 14) # {}
    /\ C4_Dated(hearing_date, today + 15) # {}
    /\ Len(df.rows) = 3
    /\ Len(result.rows) = 2

\* the pending rows of officer o, whatever their completion date
C8_PendingOf(o) ==
    {i \in 1..Len(df.rows) :
        /\ df.rows[i][ColumnOf(df, officer_col)] = o
        /\ df.rows[i][ColumnOf(df, status_col)] \in C2_PendingTexts}

\* C8: the performance view lists every named officer exactly once, with the
\* number of the officer's complete rows of the last 7 days and the number of
\* the officer's pending rows whatever their completion date, 0 where the
\* officer has none; it lists nobody else.
C8_PerformanceJoin ==
    C2_Aggregated("performance") =>
        /\ \A o \in C3_Officers :
              /\ Cardinality(C3_RowsOf(o)) = 1
              /\ \A k \in C3_RowsOf(o) :
                    /\ result.rows[k][2] = Cardinality(C4_CompletedOf(o, today - 7, today))
                    /\ result.rows[k][3] = Cardinality(C8_PendingOf(o))
        /\ \A k \in 1..Len(result.rows) : result.rows[k][1] \in C3_Officers

\* C8 witness: one officer has only a complete row in the window, another only
\* a pending row with a completion date that does not parse; both are listed.
C8_Witness ==
    /\ C2_Aggregated("performance")
    /\ \E a, b \in C3_Officers :
          /\ a # b
          /\ Cardinality(C4_CompletedOf(a, today - 7, today)) = 1 /\ C8_PendingOf(a) = {}
          /\ C4_CompletedOf(b, today - 7, today) = {}
          /\ \E i \in C8_PendingOf(b) : df.rows[i][ColumnOf(df, completion_date_col)] = Timestamp(NaT)
    /\ Len(result.rows) = 2

\* the first row of the loaded table that names officer o
C9_FirstSeen(o) ==
    Min({i \in 1..Len(df.rows) : df.rows[i][ColumnOf(df, officer_col)] = o})

\* C9 (as amended): the rows of the pending-tasks and performance summaries are
\* in descending order of the primary count.
C9_CountDescending ==
    (C2_Aggregated("pending") \/ C2_Aggregated("performance")) =>
        \A k \in 1..(Len(result.rows) - 1) : result.rows[k][2] >= result.rows[k + 1][2]

\* C9 (as stated): the rows are in descending order of the primary count, and
\* groups with equal counts are in the order in which their keys first occur
\* in the table.
C9_StableOnEncounterOrder ==
    ((C2_Aggregated("pending") /\ C2_Survivors # {}) \/ C2_Aggregated("performance")) =>
        \A k \in 1..(Len(result.rows) - 1) :
            /\ result.rows[k][2] >= result.rows[k + 1][2]
            /\ result.rows[k][2] = result.rows[k + 1][2] =>
                  C9_FirstSeen(result.rows[k][1]) < C9_FirstSeen(result.rows[k + 1][1])

\* C9 witness: a summary of two groups with different counts.
C9_Witness ==
    /\ C2_Aggregated("pending")
    /\ Len(result.rows) = 2
    /\ result.rows[1][2] > result.rows[2][2]

\* the URLs from which no sheet identifier can be extracted
C5_NoIdTexts ==
    {Text(MkUrl(i, f, q)) : i \in NoIdParts, f \in {EditForm, GvizForm}, q \in Queries}

\* C5 (as amended): for every URL without an extractable sheet identifier,
\* get_sheet_data returns None with the "Could not parse" error and fetches
\* nothing; load_data does not parse its URL: it always hands it to the
\* fetch, and returns what was read, or an empty table with the "Error loading
\* data" message.  Neither raises.
C5_UnparseableReference ==
    /\ (pc = "fetched" /\ url \in C5_NoIdTexts) =>
          /\ sheet = None
          /\ fetched = <<>>
          /\ st_error = <<Message("Could not parse Google Sheets URL", <<>>)>>
    /\ (pc = "loaded" /\ url \in C5_NoIdTexts) =>
          /\ fetched = <<url>>
          /\ \/ st_error = <<>>
             \/ /\ df = EmptyDataFrame
                /\ st_error = <<Message("Error loading data from sheet",
                                        SubSeq(url, Len(url) - 9, Len(url)))>>

\* C5 (as stated): for every URL without an extractable sheet identifier, both
\* get_sheet_data and load_data report an unparseable reference and fetch
\* nothing.
C5_UnparseableNeverFetched ==
    (pc \in {"fetched", "loaded"} /\ url \in C5_NoIdTexts) =>
        /\ fetched = <<>>
        /\ st_error = <<Message("Could not parse Google Sheets URL", <<>>)>>

\* C5 witness: get_sheet_data was given a URL with a gid but with nothing
\* after /d/, and returned None.
C5_Witness ==
    /\ pc = "fetched"
    /\ url = Text(MkUrl(<<"/", "d", "/">>, EditForm, GidBoth))
    /\ sheet = None

\* the gid each query names
C6_Gid ==
    [q \in GidQueries |->
        CASE q = GidFirst -> <<"5">>
          [] q = GidLater -> <<"0">>
          [] q = GidFragment -> <<"5">>
          [] q = GidBoth -> <<"5">>]

\* C6 (as stated): for a URL /d/<id>/edit or /d/<id>/gviz/tq whose gid follows
\* '?', '&' or '#', get_sheet_data requests the CSV export of (<id>, gid).
C6_BothFormsResolve ==
    pc = "fetched" =>
        \A i \in IdParts, f \in {EditForm, GvizForm}, q \in GidQueries :
            url = Text(MkUrl(i, f, q)) =>
                fetched = <<CsvUrl(SubSeq(i, 4, Len(i)), C6_Gid[q])>>

\* keyword occurs in name
C10_Contains(name, keyword) ==
    \E i \in 1..Len(name) :
        /\ i + Len(keyword) - 1 <= Len(name)
        /\ SubSeq(name, i, i + Len(keyword) - 1) = keyword

\* C10 (as stated): the hearing-date column is reported missing only when no
\* column matches "hearing date" exactly or contains it; a table whose only
\* date column is "NEXT HEARING DATE" resolves it.
C10_SubstringFallback ==
    (/\ pc = "rendered"
     /\ view = "court"
     /\ Len(df.rows) > 0
     /\ \E j \in 1..Len(df.columns) : C10_Contains(df.columns[j], hearing_date))
        => st_error = <<>>

\* the day each date text of the sheets names, read day first
C11_Day ==
    [c \in {<<"12", "/", "01", "/", "2025">>, <<"13", "/", "01", "/", "2025">>,
            <<"19", "/", "01", "/", "2025">>, <<"20", "/", "01", "/", "2025">>,
            <<"21", "/", "01", "/", "2025">>, <<"03", "/", "02", "/", "2025">>,
            <<"04", "/", "02", "/", "2025">>} |->
        CASE c[3] = "02" -> IF c[1] = "03" THEN 34 ELSE 35
          [] c[1] = "12" -> 12
          [] c[1] = "13" -> 13
          [] c[1] = "19" -> 19
          [] c[1] = "20" -> 20
          [] c[1] = "21" -> 21]

\* the rows of frame whose cell in column col names a day in lo..hi
C11_InWindow(frame, col, lo, hi) ==
    {i \in 1..Len(frame.rows) :
        LET c == frame.rows[i][ColumnOf(frame, col)]
        IN c \in DOMAIN C11_Day /\ C11_Day[c] \in lo..hi}

\* the rows of frame of officer o whose status cell is one of texts
C11_RowsOf(frame, o, texts) ==
    {i \in 1..Len(frame.rows) :
        /\ frame.rows[i][ColumnOf(frame, officer_col)] = o
        /\ frame.rows[i][ColumnOf(frame, status_col)] \in texts}

\* the rows of a returned frame that show day d in their last column
C11_Showing(frame, d) ==
    {k \in 1..Len(frame.rows) : frame.rows[k][Len(frame.rows[k])] = C4_Shown[d]}

\* C11: a date cell that does not parse leaves its row out of the date-filtered
\* result and does not abort the view.  On a table with rows and the required
\* columns, whatever its date cells hold, the upcoming-cases view shows no
\* message and returns exactly the rows whose cell names a day in
\* today..today+14; the performance view shows no message and gives every named
\* officer the number of complete rows whose cell names a day in today-7..today
\* and the number of pending rows, pending rows with an unparseable completion
\* date included.
C11_UnparseableRowsSkipped ==
    [][(pc = "loaded" /\ pc' = "rendered" /\ ~Empty(df)) =>
          /\ (view' = "court" /\ InSeq(hearing_date, df.columns)) =>
                /\ st_error' = st_error
                /\ Len(result'.rows) =
                      Cardinality(C11_InWindow(df, hearing_date, today', today' + 14))
                /\ \A d \in DOMAIN C4_Shown :
                      Cardinality(C11_Showing(result', d)) =
                          Cardinality(C11_InWindow(df, hearing_date, d, d)
                                      \cap C11_InWindow(df, hearing_date, today', today' + 14))
          /\ (view' = "performance"
                 /\ missing_cols(df, <<officer_col, status_col, completion_date_col>>) = <<>>) =>
                /\ st_error' = st_error
                /\ \A i \in 1..Len(df.rows) :
                      LET o == df.rows[i][ColumnOf(df, officer_col)]
                      IN o # NaN =>
                           \E k \in 1..Len(result'.rows) :
                               /\ result'.rows[k][1] = o
                               /\ result'.rows[k][2] =
                                     Cardinality(C11_RowsOf(df, o, C2_CompleteTexts)
                                                 \cap C11_InWindow(df, completion_date_col,
                                                                   today' - 7, today'))
                               /\ result'.rows[k][3] =
                                     Cardinality(C11_RowsOf(df, o, C2_PendingTexts))]_vars

\* C11 witness: the upcoming-cases view ran on a table that holds a hearing
\* date that did not parse and a hearing in the window, and showed the latter.
C11_Witness ==
    /\ C2_Aggregated("court")
    /\ C4_Dated(hearing_date, NaT) # {}
    /\ C4_Dated(hearing_date, today + 14) # {}
    /\ Len(result.rows) = 1
    /\ box = Box(1, "st.dataframe")
    /\ st_error = <<>>

\* the call of the view just shown ended in the missing-columns diagnostic: the
\* error is on the page and the placeholder frame was returned
C12_MissingColumns ==
    /\ \E n \in 1..Len(st_error) : st_error[n].text = "Error: Missing Columns in"
    /\ result = C1_ErrorFrame[view]

\* the call of the view just shown ended in a summary: a frame with the
\* columns of the view (or the empty frame of the upcoming-cases view) and no
\* missing-columns error
C12_Summary ==
    /\ \A n \in 1..Len(st_error) : st_error[n].text # "Error: Missing Columns in"
    /\ CASE view = "pending" -> result.columns = <<Officer, PendingTasks>>
         [] view = "court" ->
               \/ result = EmptyDataFrame
               \/ result.columns[Len(result.columns)] = HearingDate
         [] view = "performance" ->
               result.columns = <<Officer, Completed7Days, PendingTotal>>

\* C12 (as stated): for every input table, each aggregation call ends by
\* returning exactly one of a summary and a missing-columns diagnostic; no
\* call raises, so no run of main_dashboard is cut short before its remaining
\* boxes.
C12_AlwaysReturnsNeverRaises ==
    /\ pc # "raised"
    /\ pc = "rendered" => (C12_MissingColumns /\ ~C12_Summary) \/ (C12_Summary /\ ~C12_MissingColumns)

\* C13 (as stated): aggregation and rendering never modify the loaded table:
\* from the load until the run ends, its column names and every cell are as
\* load_data returned them.
C13_LoadedTableNeverModified ==
    [][pc = "loaded" => (df'.columns = df.columns /\ df'.rows = df.rows)]_vars

\* the situations in which get_upcoming_cases returns pd.DataFrame(): the load
\* failed or gave no rows, the hearing date column is missing, and no hearing
\* of the table is in today..today+14 (the column holds parsed dates once the
\* view has run)
C14_LoadFailed == Empty(df)

C14_ColumnMissing == ~Empty(df) /\ ~InSeq(hearing_date, df.columns)

C14_NoneInWindow ==
    /\ ~Empty(df)
    /\ InSeq(hearing_date, df.columns)
    /\ \A d \in today..(today + 14) : C4_Dated(hearing_date, d) = {}

\* C14: get_upcoming_cases returns the same empty frame when the load failed,
\* when the hearing date column is missing and when the table loaded but no
\* hearing is in the 14-day window; the court box then shows the "Data
\* load/processing failed" warning in all three, and never shows "No court
\* cases scheduled in the next 14 days."
C14_EmptyResultAlwaysWarns ==
    (pc = "rendered" /\ view = "court") =>
        /\ (C14_LoadFailed \/ C14_ColumnMissing \/ C14_NoneInWindow) =>
              /\ result = EmptyDataFrame
              /\ box = Box(0, "Data load/processing failed for Court Cases.")
        /\ box.body # "No court cases scheduled in the next 14 days."

\* C14 witness: the table loaded with its hearing date column, its only
\* hearing was the day before today, and the box shows the warning.
C14_Witness ==
    /\ pc = "rendered"
    /\ view = "court"
    /\ C14_NoneInWindow
    /\ C4_Dated(hearing_date, today - 1) # {}
    /\ st_error = <<>>
    /\ result = EmptyDataFrame
    /\ box = Box(0, "Data load/processing failed for Court Cases.")

====
